---- MODULE Spec2Model ----
(***************************************************************************)
(* Model of the two entry points of tiles-shortest-path-planner,           *)
(* src/bin/TilePlanner.js and src/bin/Cli.js, as asynchronous state        *)
(* machines: one action per resumption of the async function run() (the    *)
(* synchronous code between two awaits is one step), plus the settlement   *)
(* of the promises that run() creates without awaiting them at once.       *)
(* A second specification, SpecTileCache, models the single-flight         *)
(* TileCache of the routing library, which is described by spec.md only.   *)
(***************************************************************************)
EXTENDS Integers, Sequences, FiniteSets, TLC

VARIABLES
    entry,      \* which script runs: "TilePlanner" or "Cli"
    opts,       \* program.opts(): [tilesValid, algorithmOpt, indexOpt]
    pc,         \* the await at which run() is suspended
    term,       \* "running", "done", "exit" (process.exit()), "rejected" (run() threw)
    reqFrom,    \* promise of fetch(.../location from): "none","pending","fulfilled","rejected"
    reqTo,      \* promise of fetch(.../location to)
    bodyFrom,   \* promise of (response from).json(): "none","pending","rejected" or a LocValues
    bodyTo,     \* promise of (response to).json()
    FROM,       \* the FROM binding: "unset" or a LocValues
    TO,         \* the TO binding
    coords,     \* which of "FROM","TO" have had .coordinates assigned
    NGs,        \* number of NetworkGraph objects constructed
    engine,     \* tilePlanner / algorithm: "null","Dijkstra","AStar","NBAStar"
    log,        \* the observable events of the run, in order
    tileState,  \* TileCache: key -> "absent","inflight","resolved","failed"
    inflight,   \* TileCache: set of fetches in flight, [key, promise]
    pending,    \* TileCache: key -> promise stored in the in-flight table (0: none)
    fetches,    \* TileCache: key -> number of network fetches issued
    merges,     \* TileCache: key -> number of merges into the NetworkGraph
    handle,     \* TileCache: caller -> [key, promise, attached] it was given (promise 0: done at once)
    nextPromise \* TileCache: next fresh promise identity

runVars == <<entry, opts, pc, term, reqFrom, reqTo, bodyFrom, bodyTo, FROM, TO,
             coords, NGs, engine, log>>
tcVars == <<tileState, inflight, pending, fetches, merges, handle, nextPromise>>
vars == <<entry, opts, pc, term, reqFrom, reqTo, bodyFrom, bodyTo, FROM, TO,
          coords, NGs, engine, log,
          tileState, inflight, pending, fetches, merges, handle, nextPromise>>

----------------------------------------------------------------------------
(* Inputs *)

Entries == {"TilePlanner", "Cli"}

\* "<absent>": the -a option is not given on the command line.
AbsentOpt == "<absent>"
\* The three documented names and one name no dispatch knows.
AlgorithmNames == {"Dijkstra", "A*", "NBA*", "Bellman-Ford"}
AlgorithmOpts == AlgorithmNames \cup {AbsentOpt}

\* The -i option of Cli.js: not given, or naming a readable index file that
\* holds both identifiers, a readable one that misses one, an unreadable one.
IndexOpts == {AbsentOpt, "readable_both", "readable_missing", "unreadable"}

\* What a location endpoint (or index) can yield for an identifier: JSON null,
\* a record whose wkt decodes, one whose wkt does not decode, one without wkt.
LocValues == {"null", "rec_point", "rec_garbage", "rec_nowkt"}

\* findPath(origin, destination) -> PathResult | absent.
FindPathResults == {"PathResult", "absent"}

Append2(s, t) == s \o t

Idx(s, e) == IF \E i \in 1..Len(s) : s[i] = e
             THEN CHOOSE i \in 1..Len(s) : s[i] = e /\ \A j \in 1..(i-1) : s[j] # e
             ELSE 0

Count(s, e) == Cardinality({i \in 1..Len(s) : s[i] = e})

Has(s, e) == Idx(s, e) > 0

----------------------------------------------------------------------------
(* Pure helpers of the entry points *)

\* commander: .option("-a, --algorithm <algorithm>", ..., "NBA*")
Algorithm(o) == IF o.algorithmOpt = AbsentOpt THEN "NBA*" ELSE o.algorithmOpt

\* Utils.isValidHttpUrl(program.opts().tiles)
IsValidHttpUrl(o) == o.tilesValid

\* if (program.opts().index)
IndexGiven(o) == o.indexOpt # AbsentOpt

\* Cli.js declares `const path = await algorithm.findPath(FROM, TO)` in the body
\* of run(), which shadows the imported module `path` in the whole function.
PathDeclLine == 86
\* path.resolve(program.opts().index) inside the try block.
PathUseLine == 39

\* A const binding is in its temporal dead zone until its declaration has run.
InTDZ(useLine, declLine) == useLine < declLine

\* Evaluating path.resolve(...): a ReferenceError while `path` is uninitialised.
ResolveIndexPath == IF InTDZ(PathUseLine, PathDeclLine) THEN "ReferenceError" ELSE "resolved"

\* loc.wkt: reading a property of null throws a TypeError.
Wkt(loc) == CASE loc = "null" -> "TypeError"
              [] loc = "rec_point" -> "POINT"
              [] loc = "rec_garbage" -> "garbage"
              [] OTHER -> "undefined"

\* Variant: a parser that hands back a geometry for any text.
wktParseLenient(w) == CASE w \in {"POINT", "garbage"} -> "geometry"
                        [] OTHER -> "TypeError"

\* wellknown's parse: a GeoJSON geometry, null when the text does not decode,
\* a TypeError when the input is no string.
wktParse(w) == CASE w = "POINT" -> "geometry"
                 [] w = "garbage" -> "null"
                 [] OTHER -> "TypeError"

\* X.coordinates = wktParse(X.wkt).coordinates throws unless a geometry came back.
CoordinatesThrow(loc) ==
    \/ Wkt(loc) = "TypeError"
    \/ wktParse(Wkt(loc)) # "geometry"

\* FROM.coordinates = ...; TO.coordinates = ...; logger.info(...)
AssignCoordinates(f, t, l) ==
    IF CoordinatesThrow(f)
    THEN [ok |-> FALSE, coords |-> {}, log |-> Append2(l, <<"throw">>)]
    ELSE IF CoordinatesThrow(t)
    THEN [ok |-> FALSE, coords |-> {"FROM"}, log |-> Append2(l, <<"coordsFrom", "throw">>)]
    ELSE [ok |-> TRUE, coords |-> {"FROM", "TO"},
          log |-> Append2(l, <<"coordsFrom", "coordsTo", "logInfo">>)]

\* switch (program.opts().algorithm) of TilePlanner.js: no default case, so
\* tilePlanner keeps its initial null.
DispatchTilePlanner(alg) ==
    CASE alg = "Dijkstra" -> "Dijkstra"
      [] alg = "A*" -> "AStar"
      [] alg = "NBA*" -> "NBAStar"
      [] OTHER -> "null"

\* switch (program.opts().algorithm) of Cli.js: default: process.exit()
DispatchCli(alg) ==
    CASE alg = "Dijkstra" -> "Dijkstra"
      [] alg = "A*" -> "AStar"
      [] OTHER -> "exit"

\* path.map(...) of Cli.js needs an array: a PathResult {path, metadata} has no
\* map method and absent has no properties at all.
HasMap(result) == result \notin {"PathResult", "absent"}

\* if (shortestPath) of TilePlanner.js
Truthy(result) == result # "absent"

----------------------------------------------------------------------------
(* The entry points: run() of TilePlanner.js and of Cli.js *)

\* TileCache state, idle while an entry point is being followed.
MaxTiles == 2
MaxCallers == 3
TileKeys == 1..MaxTiles
Callers == 1..MaxCallers

\* What a caller holds before it has called ensureTileLoaded.
NoHandle == [key |-> 0, promise |-> 0, attached |-> FALSE]

InitTileCache ==
    /\ tileState = [k \in TileKeys |-> "absent"]
    /\ inflight = {}
    /\ pending = [k \in TileKeys |-> 0]
    /\ fetches = [k \in TileKeys |-> 0]
    /\ merges = [k \in TileKeys |-> 0]
    /\ handle = [c \in Callers |-> NoHandle]
    /\ nextPromise = 1

\* The state when run() is called: options parsed, nothing requested yet.
\* TilePlanner.js declares no index option.
InitRun ==
    /\ entry \in Entries
    /\ opts \in [tilesValid : BOOLEAN, algorithmOpt : AlgorithmOpts, indexOpt : IndexOpts]
    /\ (entry = "TilePlanner" => opts.indexOpt = AbsentOpt)
    /\ pc = "start"
    /\ term = "running"
    /\ reqFrom = "none" /\ reqTo = "none"
    /\ bodyFrom = "none" /\ bodyTo = "none"
    /\ FROM = "unset" /\ TO = "unset"
    /\ coords = {}
    /\ NGs = 0
    /\ engine = "null"
    /\ log = <<>>

Init == InitRun /\ InitTileCache

\* run() ends by process.exit() after the events evs.
Exit(evs) ==
    /\ term' = "exit"
    /\ pc' = "end"
    /\ log' = Append2(log, evs)

\* An exception leaves run(): its promise rejects, nothing handles it.
Throw(evs) ==
    /\ term' = "rejected"
    /\ pc' = "end"
    /\ log' = Append2(log, evs)

\* Variant: the validity check of the tile interface is left out.
TilesCheckSkipped(o) == FALSE

\* logger.error(...); process.exit() when the tile interface is no valid HTTP URL.
TilesCheckFails(o) == ~IsValidHttpUrl(o)

\* run() from its call to its first await.
\* TilePlanner.js 8-35, Cli.js 11-49.
Start ==
    /\ pc = "start" /\ term = "running"
    /\ IF TilesCheckFails(opts)
       THEN /\ Exit(<<"logError", "exit">>)
            /\ UNCHANGED <<reqFrom>>
       ELSE IF entry = "Cli" /\ IndexGiven(opts)
       THEN \* try { ... path.resolve(...) ... } catch (err) { logger.error(err); process.exit(); }
            IF ResolveIndexPath = "ReferenceError"
            THEN /\ Exit(<<"logError", "exit">>)
                 /\ UNCHANGED <<reqFrom>>
            ELSE /\ pc' = "awaitReadFile"
                 /\ log' = Append2(log, <<"readFile">>)
                 /\ UNCHANGED <<term, reqFrom>>
       ELSE /\ reqFrom' = "pending"
            /\ pc' = "awaitFetchFrom"
            /\ log' = Append2(log, <<"fetchFrom">>)
            /\ UNCHANGED term
    /\ UNCHANGED <<entry, opts, reqTo, bodyFrom, bodyTo, FROM, TO, coords, NGs, engine>>
    /\ UNCHANGED tcVars

\* The events of run() once `await fetch(from)` has fulfilled: .json() is
\* called on the response and only then fetch(to) is evaluated and awaited.
AfterFetchFrom == <<"respFrom", "fetchTo">>

\* `await fetch(.../location from)` settles.
FetchFromSettled ==
    /\ pc = "awaitFetchFrom" /\ term = "running"
    /\ \E ok \in BOOLEAN :
         IF ok
         THEN /\ reqFrom' = "fulfilled"
              /\ bodyFrom' = "pending"
              /\ reqTo' = "pending"
              /\ pc' = "awaitFetchTo"
              /\ log' = Append2(log, AfterFetchFrom)
              /\ UNCHANGED term
         ELSE /\ reqFrom' = "rejected"
              /\ Throw(<<"failFrom", "throw">>)
              /\ UNCHANGED <<bodyFrom, reqTo>>
    /\ UNCHANGED <<entry, opts, bodyTo, FROM, TO, coords, NGs, engine>>
    /\ UNCHANGED tcVars

\* Variant: loadTileQuadTree is called but not awaited, findPath follows at once.
TilePlannerDispatchNoAwait(l) ==
    LET e == DispatchTilePlanner(Algorithm(opts)) IN
    /\ NGs' = NGs + 1
    /\ engine' = e
    /\ IF e = "null"
       THEN /\ term' = "rejected"
            /\ pc' = "end"
            /\ log' = Append2(l, <<"NG", "throw">>)
       ELSE /\ pc' = "awaitFind"
            /\ log' = Append2(l, <<"NG", "engine", "loadTileQuadTree", "findPath">>)
            /\ UNCHANGED term

\* TilePlanner.js 50-84: the NetworkGraph, the engine, loadTileQuadTree.
\* tilePlanner.loadTileQuadTree on null is a TypeError.
TilePlannerDispatch(l) ==
    LET e == DispatchTilePlanner(Algorithm(opts)) IN
    /\ NGs' = NGs + 1
    /\ engine' = e
    /\ IF e = "null"
       THEN /\ term' = "rejected"
            /\ pc' = "end"
            /\ log' = Append2(l, <<"NG", "throw">>)
       ELSE /\ pc' = "awaitLoad"
            /\ log' = Append2(l, <<"NG", "engine", "loadTileQuadTree">>)
            /\ UNCHANGED term

\* Cli.js 61-86: the engine with its own NetworkGraph, then findPath.
CliDispatch(l) ==
    LET e == DispatchCli(Algorithm(opts)) IN
    IF e = "exit"
    THEN /\ term' = "exit"
         /\ pc' = "end"
         /\ log' = Append2(l, <<"exit">>)
         /\ UNCHANGED <<NGs, engine>>
    ELSE /\ NGs' = NGs + 1
         /\ engine' = e
         /\ pc' = "awaitFind"
         /\ log' = Append2(l, <<"NG", "engine", "findPath">>)
         /\ UNCHANGED term

\* run() resumed with both locations, l the log so far:
\* TilePlanner.js 38-84, Cli.js 52-86.
Resume(f, t, l) ==
    LET a == AssignCoordinates(f, t, l) IN
    /\ FROM' = f
    /\ TO' = t
    /\ coords' = a.coords
    /\ IF ~a.ok
       THEN /\ term' = "rejected"
            /\ pc' = "end"
            /\ log' = a.log
            /\ UNCHANGED <<NGs, engine>>
       ELSE IF entry = "TilePlanner"
       THEN TilePlannerDispatch(a.log)
       ELSE CliDispatch(a.log)

NoResume == UNCHANGED <<FROM, TO, coords, NGs, engine>>

\* `await fetch(.../location to)` settles; on fulfilment .json() is called and
\* Promise.all of the two body promises is awaited. Promise.all rejects at
\* once when the first body promise has already rejected.
FetchToSettled ==
    /\ pc = "awaitFetchTo" /\ term = "running"
    /\ \E ok \in BOOLEAN :
         IF ~ok
         THEN /\ reqTo' = "rejected"
              /\ Throw(<<"failTo", "throw">>)
              /\ UNCHANGED bodyTo
         ELSE /\ reqTo' = "fulfilled"
              /\ bodyTo' = "pending"
              /\ IF bodyFrom = "rejected"
                 THEN Throw(<<"respTo", "throw">>)
                 ELSE /\ pc' = "awaitAll"
                      /\ log' = Append2(log, <<"respTo">>)
                      /\ UNCHANGED term
    /\ NoResume
    /\ UNCHANGED <<entry, opts, reqFrom, bodyFrom>>
    /\ UNCHANGED tcVars

\* The body of the origin response is read and parsed (or fails to be).
BodyFromSettled ==
    /\ bodyFrom = "pending" /\ term = "running"
    /\ \E v \in LocValues \cup {"rejected"} :
         /\ bodyFrom' = v
         /\ IF pc = "awaitAll"
            THEN IF v = "rejected"
                 THEN Throw(<<"failJsonFrom", "throw">>) /\ NoResume
                 ELSE IF bodyTo \in LocValues
                 THEN Resume(v, bodyTo, Append2(log, <<"jsonFrom">>))
                 ELSE /\ log' = Append2(log, <<"jsonFrom">>)
                      /\ NoResume
                      /\ UNCHANGED <<pc, term>>
            ELSE /\ log' = Append2(log, <<IF v = "rejected" THEN "failJsonFrom" ELSE "jsonFrom">>)
                 /\ NoResume
                 /\ UNCHANGED <<pc, term>>
    /\ UNCHANGED <<entry, opts, reqFrom, reqTo, bodyTo>>
    /\ UNCHANGED tcVars

\* The body of the destination response is read and parsed (or fails to be).
BodyToSettled ==
    /\ bodyTo = "pending" /\ term = "running" /\ pc = "awaitAll"
    /\ \E v \in LocValues \cup {"rejected"} :
         /\ bodyTo' = v
         /\ IF v = "rejected"
            THEN Throw(<<"failJsonTo", "throw">>) /\ NoResume
            ELSE IF bodyFrom \in LocValues
            THEN Resume(bodyFrom, v, Append2(log, <<"jsonTo">>))
            ELSE /\ log' = Append2(log, <<"jsonTo">>)
                 /\ NoResume
                 /\ UNCHANGED <<pc, term>>
    /\ UNCHANGED <<entry, opts, reqFrom, reqTo, bodyFrom>>
    /\ UNCHANGED tcVars

\* The origin body promise rejected while run() still awaits fetch(to): no
\* handler is attached to it yet, and a runtime that treats unhandled
\* rejections as fatal ends the process there.
UnhandledBodyRejection ==
    /\ pc = "awaitFetchTo" /\ term = "running" /\ bodyFrom = "rejected"
    /\ Throw(<<"throw">>)
    /\ NoResume
    /\ UNCHANGED <<entry, opts, reqFrom, reqTo, bodyFrom, bodyTo>>
    /\ UNCHANGED tcVars

\* `await tilePlanner.loadTileQuadTree(threshold)` fulfils: findPath is called.
\* TilePlanner.js 84-87.
LoadTileQuadTreeFulfilled ==
    /\ pc = "awaitLoad" /\ term = "running"
    /\ pc' = "awaitFind"
    /\ log' = Append2(log, <<"loadDone", "findPath">>)
    /\ UNCHANGED <<entry, opts, term, reqFrom, reqTo, bodyFrom, bodyTo, FROM, TO,
                   coords, NGs, engine>>
    /\ UNCHANGED tcVars

\* `await tilePlanner.loadTileQuadTree(threshold)` rejects: run() rejects.
LoadTileQuadTreeRejected ==
    /\ pc = "awaitLoad" /\ term = "running"
    /\ Throw(<<"loadFail", "throw">>)
    /\ UNCHANGED <<entry, opts, reqFrom, reqTo, bodyFrom, bodyTo, FROM, TO,
                   coords, NGs, engine>>
    /\ UNCHANGED tcVars

\* TilePlanner.js 88-100: the listing, the linestring and the metadata, or
\* the no-path message.
ReportTilePlanner(r) ==
    IF Truthy(r)
    THEN <<"findDone", "printPath", "printLinestring", "printMetadata">>
    ELSE <<"findDone", "printNoPath">>

\* Cli.js 87: console.log(path.map(...)); a TypeError when path has no map.
ReportCli(r) ==
    IF HasMap(r)
    THEN <<"findDone", "printPath">>
    ELSE <<"findDone", "throw">>

Report(e, r) == IF e = "TilePlanner" THEN ReportTilePlanner(r) ELSE ReportCli(r)

\* `await findPath(FROM, TO)` fulfils with a PathResult or with absent.
FindPathFulfilled ==
    /\ pc = "awaitFind" /\ term = "running"
    /\ \E r \in FindPathResults :
         LET evs == Append2(<<r>>, Report(entry, r)) IN
         /\ log' = Append2(log, evs)
         /\ term' = IF Has(evs, "throw") THEN "rejected" ELSE "done"
    /\ pc' = "end"
    /\ UNCHANGED <<entry, opts, reqFrom, reqTo, bodyFrom, bodyTo, FROM, TO,
                   coords, NGs, engine>>
    /\ UNCHANGED tcVars

\* Variant: the rejection of findPath is caught and reported as "no path".
FindPathRejectedSwallowed ==
    /\ pc = "awaitFind" /\ term = "running"
    /\ term' = "done"
    /\ pc' = "end"
    /\ log' = Append2(log, <<"findFail", "printNoPath">>)
    /\ UNCHANGED <<entry, opts, reqFrom, reqTo, bodyFrom, bodyTo, FROM, TO,
                   coords, NGs, engine>>
    /\ UNCHANGED tcVars

\* `await findPath(FROM, TO)` rejects (a tile could not be fetched or decoded).
FindPathRejected ==
    /\ pc = "awaitFind" /\ term = "running"
    /\ Throw(<<"findFail", "throw">>)
    /\ UNCHANGED <<entry, opts, reqFrom, reqTo, bodyFrom, bodyTo, FROM, TO,
                   coords, NGs, engine>>
    /\ UNCHANGED tcVars

Next ==
    \/ Start
    \/ FetchFromSettled
    \/ FetchToSettled
    \/ BodyFromSettled
    \/ BodyToSettled
    \/ UnhandledBodyRejection
    \/ LoadTileQuadTreeFulfilled
    \/ LoadTileQuadTreeRejected
    \/ FindPathFulfilled
    \/ FindPathRejected

Spec == Init /\ [][Next]_vars

----------------------------------------------------------------------------
(* TileCache: single-flight tile loading during one query (spec.md 4.2) *)

\* One query is in its findPath; the engine's callers ask for tiles.
InitQuery ==
    /\ entry = "TilePlanner"
    /\ opts = [tilesValid |-> TRUE, algorithmOpt |-> AbsentOpt, indexOpt |-> AbsentOpt]
    /\ pc = "awaitFind"
    /\ term = "running"
    /\ reqFrom = "fulfilled" /\ reqTo = "fulfilled"
    /\ bodyFrom = "rec_point" /\ bodyTo = "rec_point"
    /\ FROM = "rec_point" /\ TO = "rec_point"
    /\ coords = {"FROM", "TO"}
    /\ NGs = 1
    /\ engine = "NBAStar"
    /\ log = <<>>

\* A failed tile aborts the query: no further tile is asked for.
QueryAborted == \E k \in TileKeys : tileState[k] = "failed"

\* Variant: no in-flight table, every caller of an unresolved tile fetches it.
EnsureTileLoadedNoInflightTable(c, k) ==
    /\ handle[c] = NoHandle
    /\ ~QueryAborted
    /\ IF tileState[k] = "resolved"
       THEN /\ handle' = [handle EXCEPT ![c] = [key |-> k, promise |-> 0, attached |-> FALSE]]
            /\ UNCHANGED <<tileState, inflight, pending, fetches, nextPromise>>
       ELSE /\ handle' = [handle EXCEPT ![c] = [key |-> k, promise |-> nextPromise,
                                                attached |-> tileState[k] = "inflight"]]
            /\ tileState' = [tileState EXCEPT ![k] = "inflight"]
            /\ inflight' = inflight \cup {[key |-> k, promise |-> nextPromise]}
            /\ pending' = [pending EXCEPT ![k] = nextPromise]
            /\ fetches' = [fetches EXCEPT ![k] = @ + 1]
            /\ nextPromise' = nextPromise + 1
    /\ UNCHANGED merges
    /\ UNCHANGED runVars

\* ensureTileLoaded(zoom, x, y) by caller c for tile key k: done at once when
\* the tile is cached, the pending promise when a fetch is in flight for the
\* key, otherwise a new fetch whose promise is put in the in-flight table.
EnsureTileLoaded(c, k) ==
    /\ handle[c] = NoHandle
    /\ ~QueryAborted
    /\ IF tileState[k] = "resolved"
       THEN /\ handle' = [handle EXCEPT ![c] = [key |-> k, promise |-> 0, attached |-> FALSE]]
            /\ UNCHANGED <<tileState, inflight, pending, fetches, nextPromise>>
       ELSE IF tileState[k] = "inflight"
       THEN /\ handle' = [handle EXCEPT ![c] = [key |-> k, promise |-> pending[k], attached |-> TRUE]]
            /\ UNCHANGED <<tileState, inflight, pending, fetches, nextPromise>>
       ELSE /\ handle' = [handle EXCEPT ![c] = [key |-> k, promise |-> nextPromise, attached |-> FALSE]]
            /\ tileState' = [tileState EXCEPT ![k] = "inflight"]
            /\ inflight' = inflight \cup {[key |-> k, promise |-> nextPromise]}
            /\ pending' = [pending EXCEPT ![k] = nextPromise]
            /\ fetches' = [fetches EXCEPT ![k] = @ + 1]
            /\ nextPromise' = nextPromise + 1
    /\ UNCHANGED merges
    /\ UNCHANGED runVars

\* The fetch f returns and decodes: its nodes and edges are merged into the
\* NetworkGraph and the tile is marked resolved.
TileFetchSucceeded(f) ==
    /\ f \in inflight
    /\ inflight' = inflight \ {f}
    /\ merges' = [merges EXCEPT ![f.key] = @ + 1]
    /\ tileState' = [tileState EXCEPT ![f.key] = "resolved"]
    /\ pending' = [pending EXCEPT ![f.key] = IF @ = f.promise THEN 0 ELSE @]
    /\ UNCHANGED <<fetches, handle, nextPromise>>
    /\ UNCHANGED runVars

\* The fetch f fails (TileFetchError or TileDecodeError): nothing is merged.
TileFetchFailed(f) ==
    /\ f \in inflight
    /\ inflight' = inflight \ {f}
    /\ tileState' = [tileState EXCEPT ![f.key] = "failed"]
    /\ pending' = [pending EXCEPT ![f.key] = IF @ = f.promise THEN 0 ELSE @]
    /\ UNCHANGED <<fetches, merges, handle, nextPromise>>
    /\ UNCHANGED runVars

NextTileCache ==
    \/ \E c \in Callers, k \in TileKeys : EnsureTileLoaded(c, k)
    \/ \E f \in inflight : TileFetchSucceeded(f)
    \/ \E f \in inflight : TileFetchFailed(f)

InitTileCacheQuery == InitQuery /\ InitTileCache

SpecTileCache == InitTileCacheQuery /\ [][NextTileCache]_vars

----------------------------------------------------------------------------
(* Properties *)

\* The algorithm names the dispatch of entry point e handles.
Handled(e) ==
    {a \in AlgorithmNames :
        IF e = "TilePlanner" THEN DispatchTilePlanner(a) # "null"
                             ELSE DispatchCli(a) # "exit"}

PrintEvents == {"printPath", "printLinestring", "printMetadata", "printNoPath"}

Printed == \E e \in PrintEvents : Has(log, e)

\* C1: whenever the response of the origin location request has been
\* received, the destination location request had been issued before it.
C1_DestinationIssuedBeforeOriginResponse ==
    Has(log, "respFrom") =>
        /\ Has(log, "fetchTo")
        /\ Idx(log, "fetchTo") < Idx(log, "respFrom")

\* C2: with a valid tile URL, both locations resolved and no algorithm option,
\* the engine constructed is NBA* and findPath is invoked on it (in
\* TilePlanner.js once loadTileQuadTree has completed, unless that failed).
C2_DefaultStrategyIsNBAStar ==
    (opts.tilesValid /\ opts.algorithmOpt = AbsentOpt /\ coords = {"FROM", "TO"}) =>
        /\ engine = "NBAStar"
        /\ Has(log, "findPath") \/ pc = "awaitLoad" \/ Has(log, "loadFail")

\* C3: when findPath resolves to absent the run finishes normally, reports
\* that no path was found and raises no error.
C3_AbsentIsAValidNegativeResult ==
    Has(log, "absent") =>
        /\ term = "done"
        /\ Has(log, "printNoPath")
        /\ ~Has(log, "throw")

\* C4: in Cli.js, with a readable index file holding both identifiers (and a
\* supported algorithm), FROM and TO come from the index, no location request
\* is issued and findPath is invoked.
C4_LocationsFromLocalIndex ==
    (/\ entry = "Cli"
     /\ opts.tilesValid
     /\ opts.indexOpt = "readable_both"
     /\ Algorithm(opts) \in Handled("Cli")
     /\ pc # "start") =>
        /\ FROM \in LocValues /\ TO \in LocValues
        /\ reqFrom = "none" /\ reqTo = "none"
        /\ Has(log, "findPath")

\* C5: never two fetches in flight for one tile key; each tile key is fetched
\* and merged at most once; a caller that arrives while a fetch for its key is
\* in flight holds the promise of that fetch, the only one ever made for the key.
C5_TileCacheSingleFlight ==
    /\ \A f, g \in inflight : f.key = g.key => f = g
    /\ \A k \in TileKeys : fetches[k] <= 1 /\ merges[k] <= 1
    /\ \A c \in Callers :
         handle[c].attached =>
           /\ handle[c].promise # 0
           /\ \A d \in Callers :
                (handle[d].key = handle[c].key /\ handle[d].promise # 0)
                    => handle[d].promise = handle[c].promise
           /\ \/ [key |-> handle[c].key, promise |-> handle[c].promise] \in inflight
              \/ tileState[handle[c].key] \in {"resolved", "failed"}

\* A caller attached to a fetch in flight, and that fetch has been merged.
C5_Witness ==
    \E c \in Callers :
        /\ handle[c].attached
        /\ tileState[handle[c].key] = "resolved"
        /\ merges[handle[c].key] = 1

\* C6: with an invalid tile URL no HTTP request is issued, no engine (nor
\* graph) is constructed and neither loadTileQuadTree nor findPath is invoked;
\* once run() has acted, an error was logged and the process has exited.
C6_InvalidTilesURLIsFatal ==
    ~opts.tilesValid =>
        /\ reqFrom = "none" /\ reqTo = "none"
        /\ ~Has(log, "fetchFrom") /\ ~Has(log, "fetchTo")
        /\ engine = "null" /\ NGs = 0
        /\ ~Has(log, "loadTileQuadTree") /\ ~Has(log, "findPath")
        /\ pc # "start" => (term = "exit" /\ log = <<"logError", "exit">>)

\* An invalid tile URL was given and the run has exited on it.
C6_Witness == ~opts.tilesValid /\ term = "exit" /\ Has(log, "logError")

\* C7: when the algorithm name is not handled by the entry point's dispatch,
\* the run reports an error (logged or thrown) and terminates, and neither
\* loadTileQuadTree nor findPath is invoked.
C7_UnknownAlgorithmIsReported ==
    (coords = {"FROM", "TO"} /\ Algorithm(opts) \notin Handled(entry)) =>
        /\ term # "running"
        /\ Has(log, "logError") \/ Has(log, "throw")
        /\ ~Has(log, "loadTileQuadTree") /\ ~Has(log, "findPath")

\* A location that cannot be used: the request or its body failed, the
\* record is null, has no wkt, or has a wkt that does not decode.
BadLocation(req, body) ==
    \/ req = "rejected"
    \/ body \in {"rejected", "null", "rec_garbage", "rec_nowkt"}

\* The local index of Cli.js cannot give both locations.
BadIndex ==
    /\ entry = "Cli" /\ opts.tilesValid
    /\ opts.indexOpt \in {"readable_missing", "unreadable"}
    /\ pc # "start"

LocationFailure ==
    \/ BadLocation(reqFrom, bodyFrom)
    \/ BadLocation(reqTo, bodyTo)
    \/ BadIndex

\* C8: after a location resolution failure no engine (nor graph) is
\* constructed and neither loadTileQuadTree nor findPath is invoked; the run
\* has terminated as soon as both answers are in, the index was consulted,
\* or a request failed.
C8_LocationFailureAbortsBeforeSearch ==
    LocationFailure =>
        /\ engine = "null" /\ NGs = 0
        /\ ~Has(log, "engine")
        /\ ~Has(log, "loadTileQuadTree") /\ ~Has(log, "findPath")
        /\ (\/ bodyFrom \in LocValues /\ bodyTo \in LocValues
            \/ reqFrom = "rejected" \/ reqTo = "rejected" \/ bodyTo = "rejected"
            \/ BadIndex) => term \in {"rejected", "exit"}

\* The destination's geometry did not decode, after the origin's did: the run
\* threw.
C8_Witness ==
    /\ FROM = "rec_point" /\ TO = "rec_garbage"
    /\ coords = {"FROM"}
    /\ term = "rejected"

\* C9: when loadTileQuadTree or findPath fails, the failure leaves run() and
\* neither a path listing, linestring, metadata nor the no-path message is
\* printed.
C9_NoOutputOnSearchFailure ==
    (Has(log, "loadFail") \/ Has(log, "findFail")) =>
        /\ term = "rejected"
        /\ Has(log, "throw")
        /\ ~Printed

\* findPath was invoked and failed.
C9_Witness == Has(log, "findPath") /\ Has(log, "findFail") /\ term = "rejected"

SearchSteps ==
    <<"fetchFrom", "respFrom", "fetchTo", "respTo", "coordsFrom", "coordsTo",
      "NG", "engine", "loadTileQuadTree", "loadDone", "findPath">>

\* C10: in TilePlanner.js, once findPath is invoked, each step has happened
\* exactly once and in this order: locations resolved, coordinates assigned,
\* one NetworkGraph, one engine, loadTileQuadTree invoked and completed,
\* findPath; and nothing is printed before findPath has completed.
C10_TilePlannerStepOrder ==
    entry = "TilePlanner" =>
        /\ Has(log, "findPath") =>
             /\ \A i \in 1..Len(SearchSteps) : Count(log, SearchSteps[i]) = 1
             /\ \A i \in 1..(Len(SearchSteps) - 1) :
                    Idx(log, SearchSteps[i]) < Idx(log, SearchSteps[i + 1])
             /\ Has(log, "jsonFrom") /\ Idx(log, "jsonFrom") < Idx(log, "coordsFrom")
             /\ Has(log, "jsonTo") /\ Idx(log, "jsonTo") < Idx(log, "coordsFrom")
             /\ NGs = 1 /\ engine # "null" /\ coords = {"FROM", "TO"}
        /\ Printed =>
             /\ Has(log, "findDone")
             /\ Idx(log, "findPath") < Idx(log, "findDone")
             /\ \A e \in PrintEvents : Has(log, e) => Idx(log, "findDone") < Idx(log, e)

\* TilePlanner.js ran to the end and printed a path.
C10_Witness ==
    /\ entry = "TilePlanner"
    /\ term = "done"
    /\ Has(log, "printPath")

====
